---- MODULE Spec2Model ----
(***************************************************************************)
(* A model of the mandelbrot atlas renderer (src/src/main.rs): the f32     *)
(* arithmetic it computes with, its pure functions (make_lerp,             *)
(* calculate_escape_time, make_calculations, write_data, the file name     *)
(* formatting) and the parallel tile scheduler of main.                    *)
(***************************************************************************)
EXTENDS Integers, Sequences, FiniteSets, TLC

(***************************************************************************)
(* f32: IEEE 754 binary32, round to nearest, ties to even.  A finite value *)
(* is (-1)^s * m * 2^e with m < 2^24, kept canonical: m >= 2^23 (normal)   *)
(* or e = -149 (subnormal, zero).  All intermediate integers stay below    *)
(* 2^31.                                                                   *)
(***************************************************************************)
MantBits == 24
MinExp == -149
MaxExp == 104
TwoTo23 == 2048 * 4096
TwoTo24 == 4096 * 4096

RECURSIVE Pow2(_)
Pow2(n) == IF n <= 0 THEN 1 ELSE 2 * Pow2(n - 1)

RECURSIVE BitLen(_)
BitLen(n) == IF n = 0 THEN 0 ELSE 1 + BitLen(n \div 2)

Max(a, b) == IF a >= b THEN a ELSE b
Min(a, b) == IF a <= b THEN a ELSE b

Fin(s, m, e) == [k |-> "fin", s |-> s, m |-> m, e |-> e]
Inf(s) == [k |-> "inf", s |-> s, m |-> 0, e |-> 0]
NaN == [k |-> "nan", s |-> 0, m |-> 0, e |-> 0]
Zero(s) == Fin(s, 0, MinExp)

IsNaN(a) == a.k = "nan"
IsInf(a) == a.k = "inf"
IsZero(a) == a.k = "fin" /\ a.m = 0
Xor(s, t) == (s + t) % 2

\* q, or q + 1 when the remainder r (with st = 1: r and a nonzero fraction
\* below it) is above half, or at half with q odd.
RoundNearestEven(q, r, half, st) ==
    IF r > half \/ (r = half /\ (st = 1 \/ q % 2 = 1)) THEN q + 1 ELSE q

Pack(s, m, e) == IF e > MaxExp THEN Inf(s) ELSE Fin(s, m, e)

RoundCarry(s, m, e) == IF m = TwoTo24 THEN Pack(s, TwoTo23, e + 1) ELSE Pack(s, m, e)

\* M cut by k bits, p = 2^k.
RoundCut(s, M, e, st, p) ==
    RoundCarry(s, RoundNearestEven(M \div p, M % p, p \div 2, st), e)

\* M shifted up by j bits: exact.
RoundExact(s, M, e, j) == Pack(s, M * Pow2(j), e - j)

\* k: the bits to cut from M, whose length is len.
RoundShift(s, M, e, st, len, k) ==
    IF k <= 0 THEN RoundExact(s, M, e, Min(MantBits - len, e - MinExp))
    ELSE IF k > len THEN Zero(s)
    ELSE RoundCut(s, M, e + k, st, Pow2(k))

RoundLen(s, M, e, st, len) ==
    RoundShift(s, M, e, st, len, Max(len - MantBits, MinExp - e))

\* The f32 nearest to (M + f) * 2^e, where 0 <= M < 2^30 and 0 < f < 1 when
\* st = 1, f = 0 when st = 0 (st = 1 only with M >= 2^25).
RoundF32(s, M, e, st) == IF M = 0 THEN Zero(s) ELSE RoundLen(s, M, e, st, BitLen(M))

\* An integer of magnitude below 2^30 as f32 (the casts `as f32`).
FromInt(n) == IF n < 0 THEN RoundF32(1, -n, 0, 0) ELSE RoundF32(0, n, 0, 0)

F32Neg(a) == IF IsNaN(a) THEN NaN ELSE [a EXCEPT !.s = 1 - a.s]

\* The product hi * 2^24 + lo of two 24-bit mantissas, rounded.
MulHiLo(s, e, hi, lo) ==
    RoundF32(s, hi * 16 + lo \div 1048576, e, IF lo % 1048576 = 0 THEN 0 ELSE 1)

MulCarry(s, e, h, t) == MulHiLo(s, e, h + t \div TwoTo24, t % TwoTo24)

MulMid(s, e, hh, mid, ll) == MulCarry(s, e, hh + mid \div 4096, ll + (mid % 4096) * 4096)

MulLimbs(s, e, ah, al, bh, bl) == MulMid(s, e, ah * bh, ah * bl + al * bh, al * bl)

MulNorm(s, ma, ea, mb, eb) ==
    MulLimbs(s, ea + eb + 20, ma \div 4096, ma % 4096, mb \div 4096, mb % 4096)

\* ja, jb: the shifts that bring the mantissas of a and b up to 24 bits.
MulShift(a, b, ja, jb) ==
    MulNorm(Xor(a.s, b.s), a.m * Pow2(ja), a.e - ja, b.m * Pow2(jb), b.e - jb)

F32Mul(a, b) ==
    IF IsNaN(a) \/ IsNaN(b) THEN NaN
    ELSE IF IsInf(a) \/ IsInf(b)
         THEN IF IsZero(a) \/ IsZero(b) THEN NaN ELSE Inf(Xor(a.s, b.s))
    ELSE IF IsZero(a) \/ IsZero(b) THEN Zero(Xor(a.s, b.s))
    ELSE MulShift(a, b, MantBits - BitLen(a.m), MantBits - BitLen(b.m))

RECURSIVE LongDiv(_, _, _, _)
LongDiv(r, q, d, steps) ==
    IF steps = 0 THEN <<q, r>>
    ELSE IF 2 * r >= d THEN LongDiv(2 * r - d, 2 * q + 1, d, steps - 1)
         ELSE LongDiv(2 * r, 2 * q, d, steps - 1)

DivRound(s, e, qr) == RoundF32(s, qr[1], e, IF qr[2] = 0 THEN 0 ELSE 1)

DivNorm(s, ma, mb, e) == DivRound(s, e, LongDiv(ma % mb, ma \div mb, mb, 26))

DivShift(a, b, ja, jb) ==
    DivNorm(Xor(a.s, b.s), a.m * Pow2(ja), b.m * Pow2(jb), (a.e - ja) - (b.e - jb) - 26)

F32Div(a, b) ==
    IF IsNaN(a) \/ IsNaN(b) THEN NaN
    ELSE IF IsInf(a) THEN IF IsInf(b) THEN NaN ELSE Inf(Xor(a.s, b.s))
    ELSE IF IsInf(b) THEN Zero(Xor(a.s, b.s))
    ELSE IF IsZero(b) THEN IF IsZero(a) THEN NaN ELSE Inf(Xor(a.s, b.s))
    ELSE IF IsZero(a) THEN Zero(Xor(a.s, b.s))
    ELSE DivShift(a, b, MantBits - BitLen(a.m), MantBits - BitLen(b.m))

\* |a| < |b| for finite canonical values.
MagLt(a, b) == a.e < b.e \/ (a.e = b.e /\ a.m < b.m)

JamLow(q, r) == IF r = 0 \/ q % 2 = 1 THEN q ELSE q + 1

JamBy(n, p) == JamLow(n \div p, n % p)

\* n shifted right by d bits, any bit shifted out kept in the lowest bit.
ShiftRightJam(n, d) ==
    IF d = 0 THEN n
    ELSE IF d > 30 THEN (IF n = 0 THEN 0 ELSE 1)
    ELSE JamBy(n, Pow2(d))

AddAligned(sx, sy, e, X, Y) ==
    IF sx # sy /\ X = Y THEN Zero(0)
    ELSE RoundF32(sx, IF sx = sy THEN X + Y ELSE X - Y, e, 0)

\* |x| >= |y|: three more bits for x, y aligned to it.
AddOrdered(x, y) ==
    AddAligned(x.s, y.s, x.e - 3, x.m * 8, ShiftRightJam(y.m * 8, x.e - y.e))

F32Add(a, b) ==
    IF IsNaN(a) \/ IsNaN(b) THEN NaN
    ELSE IF IsInf(a) THEN IF IsInf(b) /\ a.s # b.s THEN NaN ELSE a
    ELSE IF IsInf(b) THEN b
    ELSE IF IsZero(a) /\ IsZero(b) THEN Zero(IF a.s = 1 /\ b.s = 1 THEN 1 ELSE 0)
    ELSE IF IsZero(a) THEN b
    ELSE IF IsZero(b) THEN a
    ELSE IF MagLt(a, b) THEN AddOrdered(b, a)
    ELSE AddOrdered(a, b)

F32Sub(a, b) == F32Add(a, F32Neg(b))

F32Eq(a, b) ==
    /\ ~IsNaN(a)
    /\ ~IsNaN(b)
    /\ \/ a = b
       \/ IsZero(a) /\ IsZero(b)

F32Lt(a, b) ==
    /\ ~IsNaN(a)
    /\ ~IsNaN(b)
    /\ ~F32Eq(a, b)
    /\ IF a.s # b.s THEN a.s = 1
       ELSE IF IsInf(a) \/ IsInf(b)
            THEN (IF a.s = 0 THEN IsInf(b) ELSE IsInf(a))
       ELSE IF a.s = 0 THEN MagLt(a, b) ELSE MagLt(b, a)

F32Gt(a, b) == F32Lt(b, a)
F32Le(a, b) == F32Lt(a, b) \/ F32Eq(a, b)

\* The cast `as u8`: truncation toward zero, saturating, NaN to 0.
AsU8(a) ==
    IF IsNaN(a) THEN 0
    ELSE IF a.s = 1 THEN 0
    ELSE IF IsInf(a) THEN 255
    ELSE IF a.m = 0 THEN 0
    ELSE IF a.e >= 0 THEN (IF BitLen(a.m) + a.e > 8 THEN 255 ELSE a.m * Pow2(a.e))
    ELSE IF -a.e > 30 THEN 0
    ELSE Min(255, a.m \div Pow2(-a.e))

(***************************************************************************)
(* The `{:02.3}` formatting of an f32: the exact value rounded to three    *)
(* decimals, ties to even, with the sign of the value (also of -0.0).  The *)
(* minimum width of 2 never pads: the shortest output, "0.000", has five   *)
(* characters.  The text is modelled by its sign and its thousandths.      *)
(***************************************************************************)
\* 1000 * m = H * 2^12 + Lo; the thousandths of 1000 * m / 2^n.
MilliLarge(H, Lo, p) == RoundNearestEven(H \div p, H % p, p \div 2, IF Lo > 0 THEN 1 ELSE 0)

MilliSmall(H, Lo, p, up) == RoundNearestEven(H * up + Lo \div p, Lo % p, p \div 2, 0)

MilliSplit(H, Lo, n) ==
    IF n > 42 THEN 0
    ELSE IF n > 12 THEN MilliLarge(H, Lo, Pow2(n - 12))
    ELSE IF n = 12 THEN RoundNearestEven(H, Lo, 2048, 0)
    ELSE MilliSmall(H, Lo, Pow2(n), Pow2(12 - n))

MilliLimbs(A, B, n) == MilliSplit(A + B \div 4096, B % 4096, n)

Milli(a) ==
    IF a.m = 0 THEN 0
    ELSE IF a.e >= 0 THEN a.m * Pow2(a.e) * 1000
    ELSE MilliLimbs((a.m \div 4096) * 1000, (a.m % 4096) * 1000, -a.e)

Fmt3(a) ==
    IF IsNaN(a) THEN [text |-> "NaN", neg |-> FALSE, milli |-> 0]
    ELSE IF IsInf(a) THEN [text |-> "inf", neg |-> a.s = 1, milli |-> 0]
    ELSE [text |-> "num", neg |-> a.s = 1, milli |-> Milli(a)]

(***************************************************************************)
(* u32 and usize arithmetic on little-endian byte sequences (TLC's own     *)
(* integers end at 2^31 - 1).                                              *)
(***************************************************************************)
U32Bytes == 4
UsizeBytes == 8

RECURSIVE Bytes(_, _)
Bytes(n, k) == IF k = 0 THEN <<>> ELSE <<n % 256>> \o Bytes(n \div 256, k - 1)

RECURSIVE ColSum(_, _, _, _)
ColSum(a, b, j, i) ==
    IF i = 0 THEN 0
    ELSE (IF j + 1 - i \in 1..Len(b) THEN a[i] * b[j + 1 - i] ELSE 0)
         + ColSum(a, b, j, i - 1)

RECURSIVE MulCols(_, _, _, _)
MulCols(a, b, j, t) ==
    IF j > Len(a) + Len(b) THEN <<>>
    ELSE <<t % 256>> \o MulCols(a, b, j + 1, ColSum(a, b, j + 1, Len(a)) + t \div 256)

\* The full product, Len(a) + Len(b) bytes.
MulBytes(a, b) == MulCols(a, b, 1, ColSum(a, b, 1, Len(a)))

RECURSIVE AddCols(_, _, _, _)
AddCols(a, b, j, carry) ==
    IF j > Len(a) THEN <<carry>>
    ELSE <<(a[j] + b[j] + carry) % 256>>
         \o AddCols(a, b, j + 1, (a[j] + b[j] + carry) \div 256)

\* The full sum of two sequences of one length, one byte longer.
AddBytes(a, b) == AddCols(a, b, 1, 0)

RECURSIVE LtBytes(_, _, _)
LtBytes(a, b, j) ==
    IF j = 0 THEN FALSE
    ELSE a[j] < b[j] \/ (a[j] = b[j] /\ LtBytes(a, b, j - 1))

RECURSIVE BytesToInt(_, _)
BytesToInt(a, j) == IF j > Len(a) THEN 0 ELSE a[j] + 256 * BytesToInt(a, j + 1)

HighZero(a, from) == \A j \in from..Len(a) : a[j] = 0

\* The low four bytes of a result p, and whether it went beyond them.
U32Wrap(p) == [val |-> SubSeq(p, 1, U32Bytes), overflow |-> ~HighZero(p, U32Bytes + 1)]

U32Mul(a, b) == U32Wrap(MulBytes(a, b))
U32Add(a, b) == U32Wrap(AddBytes(a, b))

(***************************************************************************)
(* The program's types and pure functions.                                 *)
(***************************************************************************)
None == [some |-> FALSE, val |-> 0]
Some(v) == [some |-> TRUE, val |-> v]

Resolution(w, h) == [width |-> w, height |-> h]
Range(lo, hi) == [min |-> lo, max |-> hi]
Rect(xr, yr) == [x |-> xr, y |-> yr]
Complex(re, im) == [re |-> re, im |-> im]

\* num::Complex: norm_sqr, multiplication and addition.
norm_sqr(z) == F32Add(F32Mul(z.re, z.re), F32Mul(z.im, z.im))

ComplexMul(a, b) ==
    Complex(F32Sub(F32Mul(a.re, b.re), F32Mul(a.im, b.im)),
            F32Add(F32Mul(a.re, b.im), F32Mul(a.im, b.re)))

ComplexAdd(a, b) == Complex(F32Add(a.re, b.re), F32Add(a.im, b.im))

\* The literals 4.0 and 10e-6 as f32.
EscapeRadiusSqr == FromInt(4)
CollapseSqr == F32Div(FromInt(1), FromInt(100000))

\* One iteration of calculate_escape_time's loop, at index i with orbit value
\* z of squared norm n: the value returned, or the next z to go on with.
escape_step(z, n, i, c) ==
    IF F32Gt(n, EscapeRadiusSqr) THEN [done |-> TRUE, value |-> Some(i), z |-> z]
    ELSE IF i > 0 /\ F32Le(n, CollapseSqr) THEN [done |-> TRUE, value |-> None, z |-> z]
    ELSE [done |-> FALSE, value |-> None, z |-> ComplexAdd(ComplexMul(z, z), c)]

RECURSIVE escape_loop(_, _, _, _)
escape_next(st, i, c, limit) ==
    IF st.done THEN st.value ELSE escape_loop(st.z, i + 1, c, limit)

\* The loop run over 0..=limit.
escape_loop_inclusive(z, i, c, limit) ==
    IF i > limit THEN None
    ELSE escape_next(escape_step(z, norm_sqr(z), i, c), i, c, limit)

escape_loop(z, i, c, limit) ==
    IF i >= limit THEN None
    ELSE escape_next(escape_step(z, norm_sqr(z), i, c), i, c, limit)

calculate_escape_time(c, limit) == escape_loop(Complex(Zero(0), Zero(0)), 0, c, limit)

\* The offset b taken from the far end of the input interval.
lerp_coefficients_far(input, output, a) ==
    [a |-> a, b |-> F32Sub(output[1], F32Mul(input[2], a))]

\* make_lerp: the coefficients a and b of the closure it returns.
lerp_coefficients(input, output, a) ==
    [a |-> a, b |-> F32Sub(output[1], F32Mul(input[1], a))]

make_lerp(input, output) ==
    lerp_coefficients(input, output,
                      F32Div(F32Sub(output[2], output[1]), F32Sub(input[2], input[1])))

\* The closure applied: x*a + b.
lerp(l, x) == F32Add(F32Mul(x, l.a), l.b)

\* make_calculations: the pairs in the order the iterator yields them, x in
\* the outer range and y in the inner one; the two lerps are built once.
calculations(resolution, x_lerp, y_lerp, limit) ==
    [n \in 1..(resolution.width * resolution.height) |->
        [position |-> <<(n - 1) \div resolution.height, (n - 1) % resolution.height>>,
         value |-> calculate_escape_time(
                       Complex(lerp(x_lerp, FromInt((n - 1) \div resolution.height)),
                               lerp(y_lerp, FromInt((n - 1) % resolution.height))),
                       limit)]]

make_calculations(resolution, rect, limit) ==
    calculations(resolution,
                 make_lerp(<<Zero(0), FromInt(resolution.width)>>, <<rect.x.min, rect.x.max>>),
                 make_lerp(<<FromInt(resolution.height), Zero(0)>>, <<rect.y.min, rect.y.max>>),
                 limit)

\* Image::new for a buffer that fits the model: data[i] for i < width*height.
ImageNew(res) ==
    [resolution |-> res, data |-> [i \in 0..(res.width * res.height - 1) |-> 0]]

\* The length of Image::new's buffer, computed in usize.
DataLen(res) == MulBytes(Bytes(res.width, U32Bytes), Bytes(res.height, U32Bytes))

\* The index of write_data, computed in u32: position.0 + position.1 * width.
index_sum(prod, sum) == [val |-> sum.val, overflow |-> prod.overflow \/ sum.overflow]

index_add(x, prod) == index_sum(prod, U32Add(Bytes(x, U32Bytes), prod.val))

pixel_index(position, width) ==
    index_add(position[1], U32Mul(Bytes(position[2], U32Bytes), Bytes(width, U32Bytes)))

\* data.get_mut(index) is Some: index as usize is below the buffer's length.
InBounds(index, res) == LtBytes(index \o <<0, 0, 0, 0>>, DataLen(res), UsizeBytes)

const_mul(escape_limit) == F32Div(FromInt(255), FromInt(escape_limit))

\* The scaled count stored as it is, not taken from 255.
pixel_value_direct(value, cm) ==
    IF value.some THEN AsU8(F32Mul(FromInt(value.val), cm)) ELSE 0

\* The byte write_data stores for one escape result.
pixel_value(value, cm) ==
    IF value.some THEN 255 - AsU8(F32Mul(FromInt(value.val), cm)) ELSE 0

\* One iteration of write_data's loop, the index ix computed.  With overflow
\* checks (a debug build) an overflowing index panics; without them it wraps.
write_at(w, ix, value, cm, checks) ==
    IF ix.overflow /\ checks THEN [w EXCEPT !.panicked = TRUE]
    ELSE IF InBounds(ix.val, w.img.resolution)
         THEN [w EXCEPT !.img.data[BytesToInt(ix.val, 1)] = pixel_value(value, cm)]
         ELSE w

write_pixel(w, pair, cm, checks) ==
    IF w.panicked THEN w
    ELSE write_at(w, pixel_index(pair.position, w.img.resolution.width), pair.value,
                  cm, checks)

RECURSIVE write_loop(_, _, _, _, _)
write_loop(w, data, k, cm, checks) ==
    IF k > Len(data) THEN w
    ELSE write_loop(write_pixel(w, data[k], cm, checks), data, k + 1, cm, checks)

write_data(img, data, escape_limit, checks) ==
    write_loop([img |-> img, panicked |-> FALSE], data, 1, const_mul(escape_limit), checks)

\* The global rectangle of main: x in [-2.0, 1.0], y in [-1.5, 1.5].
Domain ==
    Rect(Range(FromInt(-2), FromInt(1)),
         Range(F32Div(FromInt(-3), FromInt(2)), F32Div(FromInt(3), FromInt(2))))

\* x_rect_lerp and y_rect_lerp of main, for a global rectangle.
rect_lerp(rect_lin_num, range) ==
    make_lerp(<<Zero(0), FromInt(rect_lin_num)>>, <<range.min, range.max>>)

\* The rectangle of atlas tile (x_i, y_i), the two lerps built.
rect_of(x_rect_lerp, y_rect_lerp, x_i, y_i) ==
    Rect(Range(lerp(x_rect_lerp, FromInt(x_i)), lerp(x_rect_lerp, FromInt(x_i + 1))),
         Range(lerp(y_rect_lerp, FromInt(y_i)), lerp(y_rect_lerp, FromInt(y_i + 1))))

partition_rect(global, rect_lin_num, x_i, y_i) ==
    rect_of(rect_lerp(rect_lin_num, global.x), rect_lerp(rect_lin_num, global.y), x_i, y_i)

\* The rectangles of all the atlas tiles of a global rectangle.
partition_tiles(x_rect_lerp, y_rect_lerp, rect_lin_num) ==
    [t \in {<<x, y>> : x \in 0..(rect_lin_num - 1), y \in 0..(rect_lin_num - 1)} |->
        rect_of(x_rect_lerp, y_rect_lerp, t[1], t[2])]

partition(global, rect_lin_num) ==
    partition_tiles(rect_lerp(rect_lin_num, global.x), rect_lerp(rect_lin_num, global.y),
                    rect_lin_num)

\* rect_lin_num of main.
RectLinNum == 128

tile_rect(rect_lin_num, x_i, y_i) == partition_rect(Domain, rect_lin_num, x_i, y_i)

\* The name made of the x bounds only.
string_end_x_only(rect) == <<Fmt3(rect.x.min), Fmt3(rect.x.max)>>

\* string_end, the part of the file name that differs between tiles.
string_end(rect) == <<Fmt3(rect.x.min), Fmt3(rect.x.max), Fmt3(rect.y.min), Fmt3(rect.y.max)>>

\* The job of one atlas tile up to the persistence decision (lines 146-162):
\* a fresh image, the tile's calculations, write_data.
render_tile(config, tile) ==
    write_data(ImageNew(config.res),
               make_calculations(config.res, tile_rect(config.grid, tile[1], tile[2]),
                                 config.limit),
               config.limit, config.checks)

file_name(config, tile) == string_end(tile_rect(config.grid, tile[1], tile[2]))

\* image.data.iter().max() - image.data.iter().min() > 20, for a buffer that
\* is not empty.
Threshold == 20

DataMax(data) == CHOOSE v \in {data[i] : i \in DOMAIN data} : \A i \in DOMAIN data : data[i] <= v
DataMin(data) == CHOOSE v \in {data[i] : i \in DOMAIN data} : \A i \in DOMAIN data : data[i] >= v

\* The comparison of line 164 with the threshold itself let through.
qualifies_inclusive(data) == DataMax(data) - DataMin(data) >= Threshold

qualifies(data) == DataMax(data) - DataMin(data) > Threshold

(***************************************************************************)
(* The tile scheduler of main.  par_bridge shares the sequential iterator  *)
(* of grid indices between NumWorkers folds; each fold takes the next      *)
(* index, runs the tile's job to its end, and takes another until the      *)
(* iterator is exhausted.  A panic inside a job unwinds its fold; the      *)
(* other folds go on, and collect re-raises the panic in main once every   *)
(* fold has ended.                                                         *)
(***************************************************************************)
MaxGrid == 2
NumWorkers == 2
ResWidth == 2
ResHeight == 2
MinLimit == 12
MaxLimit == 13

Workers == 1..NumWorkers
Tiles(grid) == {<<x, y>> : x \in 0..(grid - 1), y \in 0..(grid - 1)}
NoTile == <<>>
NoImage == <<>>

\* The n-th item (from 0) of (0..g).map(|x| (0..g).map(|y| (x, y))).flatten().
atlas_square(n, grid) == <<n \div grid, n % grid>>

VARIABLES
    probe,      \* a function called on its own: its arguments and its result
    cfg,        \* the constants of main: grid, res, limit; checks: the build
    mainpc,     \* "start", "running", "finished", "setup_panicked", "panicked"
    iter,       \* how many grid indices the bridged iterator has yielded
    wpc,        \* per fold: "idle", "render", "decide", "save", "done", "panicked"
    wtile,      \* per fold: the grid index of its current job
    wimage,     \* per fold: the data of its current job's image
    rendered,   \* per grid index: how many jobs have rendered it
    decisions,  \* the persistence decisions taken: tile, data, handed
    created,    \* the files File::create has created: name, tile
    completed,  \* the grid indices whose job returned
    failed      \* the grid indices whose job panicked in save_image

main_vars == <<cfg, mainpc, iter, wpc, wtile, wimage, rendered, decisions, created,
               completed, failed>>

vars == <<probe, main_vars>>

Configs(grids, widths, heights, limits) ==
    {[grid |-> g, res |-> Resolution(w, h), limit |-> l, checks |-> c] :
        g \in grids, w \in widths, h \in heights, l \in limits, c \in BOOLEAN}

\* The reference configuration scaled down: escape limits on both sides of
\* the one where a two-pixel tile's range of intensities crosses Threshold.
ScaledConfigs == Configs(1..MaxGrid, {ResWidth}, 1..ResHeight, MinLimit..MaxLimit)

\* Configurations with a zero in them, and the valid ones beside them.
ZeroConfigs == Configs(0..MaxGrid, {0, ResWidth}, {0, ResHeight}, {0, MaxLimit})

\* What lines 146-162 compute for each tile of each configuration, and the
\* file name of line 166: both are pure functions of (cfg, tile).
Jobs == {<<c, t>> : c \in ScaledConfigs \cup ZeroConfigs, t \in Tiles(MaxGrid)}

render_table == [job \in Jobs |-> render_tile(job[1], job[2])]

name_table == [job \in Jobs |-> file_name(job[1], job[2])]

NoProbe == <<>>

InitWith(configs) ==
    /\ probe = NoProbe
    /\ cfg \in configs
    /\ mainpc = "start"
    /\ iter = 0
    /\ wpc = [w \in Workers |-> "idle"]
    /\ wtile = [w \in Workers |-> NoTile]
    /\ wimage = [w \in Workers |-> NoImage]
    /\ rendered = [t \in Tiles(cfg.grid) |-> 0]
    /\ decisions = {}
    /\ created = {}
    /\ completed = {}
    /\ failed = {}

Init == InitWith(ScaledConfigs)

\* create_dir_all(dest).unwrap() succeeds; the lerps are built.
Setup ==
    /\ mainpc = "start"
    /\ mainpc' = "running"
    /\ UNCHANGED <<probe, cfg, iter, wpc, wtile, wimage, rendered, decisions, created,
                   completed, failed>>

\* create_dir_all fails and unwrap panics.
SetupFail ==
    /\ mainpc = "start"
    /\ mainpc' = "setup_panicked"
    /\ UNCHANGED <<probe, cfg, iter, wpc, wtile, wimage, rendered, decisions, created,
                   completed, failed>>

\* A fold takes the next grid index from the shared iterator, or ends.
Pull(w) ==
    /\ mainpc = "running"
    /\ wpc[w] = "idle"
    /\ IF iter < cfg.grid * cfg.grid
       THEN /\ wtile' = [wtile EXCEPT ![w] = atlas_square(iter, cfg.grid)]
            /\ iter' = iter + 1
            /\ wpc' = [wpc EXCEPT ![w] = "render"]
       ELSE /\ wpc' = [wpc EXCEPT ![w] = "done"]
            /\ UNCHANGED <<wtile, iter>>
    /\ UNCHANGED <<probe, cfg, mainpc, wimage, rendered, decisions, created, completed, failed>>

\* Lines 146-162 of the job, out being what write_data left.
Rendered(w, out) ==
    /\ wpc' = [wpc EXCEPT ![w] = IF out.panicked THEN "panicked" ELSE "decide"]
    /\ wimage' = [wimage EXCEPT ![w] = out.img.data]
    /\ rendered' = [rendered EXCEPT ![wtile[w]] = @ + 1]
    /\ UNCHANGED <<probe, cfg, mainpc, iter, wtile, decisions, created, completed, failed>>

Render(w) ==
    /\ wpc[w] = "render"
    /\ Rendered(w, render_table[<<cfg, wtile[w]>>])

\* Line 164: max().unwrap() panics on an empty buffer; a buffer that
\* qualifies goes to save_image, any other is skipped and the job returns.
Decide(w) ==
    /\ wpc[w] = "decide"
    /\ IF DOMAIN wimage[w] = {}
       THEN /\ wpc' = [wpc EXCEPT ![w] = "panicked"]
            /\ UNCHANGED <<decisions, completed, wimage, wtile>>
       ELSE IF qualifies(wimage[w])
       THEN /\ wpc' = [wpc EXCEPT ![w] = "save"]
            /\ decisions' = decisions \cup
                   {[tile |-> wtile[w], data |-> wimage[w], handed |-> TRUE]}
            /\ UNCHANGED <<completed, wimage, wtile>>
       ELSE /\ wpc' = [wpc EXCEPT ![w] = "idle"]
            /\ decisions' = decisions \cup
                   {[tile |-> wtile[w], data |-> wimage[w], handed |-> FALSE]}
            /\ completed' = completed \cup {wtile[w]}
            /\ wimage' = [wimage EXCEPT ![w] = NoImage]
            /\ wtile' = [wtile EXCEPT ![w] = NoTile]
    /\ UNCHANGED <<probe, cfg, mainpc, iter, rendered, created, failed>>

\* save_image returns Ok(()): the file is created and written, the job returns.
SaveOk(w) ==
    /\ wpc[w] = "save"
    /\ created' = created \cup {[name |-> name_table[<<cfg, wtile[w]>>], tile |-> wtile[w]]}
    /\ completed' = completed \cup {wtile[w]}
    /\ wpc' = [wpc EXCEPT ![w] = "idle"]
    /\ wimage' = [wimage EXCEPT ![w] = NoImage]
    /\ wtile' = [wtile EXCEPT ![w] = NoTile]
    /\ UNCHANGED <<probe, cfg, mainpc, iter, rendered, decisions, failed>>

\* File::create fails: save_image returns Err and line 166's unwrap panics.
CreateFail(w) ==
    /\ wpc[w] = "save"
    /\ failed' = failed \cup {wtile[w]}
    /\ wpc' = [wpc EXCEPT ![w] = "panicked"]
    /\ UNCHANGED <<probe, cfg, mainpc, iter, wtile, wimage, rendered, decisions, created,
                   completed>>

\* The file is created, write_image fails and line 124's expect panics.
EncodeFail(w) ==
    /\ wpc[w] = "save"
    /\ created' = created \cup {[name |-> name_table[<<cfg, wtile[w]>>], tile |-> wtile[w]]}
    /\ failed' = failed \cup {wtile[w]}
    /\ wpc' = [wpc EXCEPT ![w] = "panicked"]
    /\ UNCHANGED <<probe, cfg, mainpc, iter, wtile, wimage, rendered, decisions, completed>>

\* Line 175-176: collect returns when every fold has ended, and re-raises a
\* fold's panic; without one main prints "all finished" and returns.
Collect ==
    /\ mainpc = "running"
    /\ \A w \in Workers : wpc[w] \in {"done", "panicked"}
    /\ mainpc' = IF \E w \in Workers : wpc[w] = "panicked" THEN "panicked" ELSE "finished"
    /\ UNCHANGED <<probe, cfg, iter, wpc, wtile, wimage, rendered, decisions, created,
                   completed, failed>>

Next ==
    \/ Setup
    \/ SetupFail
    \/ \E w \in Workers : Pull(w)
    \/ \E w \in Workers : Render(w)
    \/ \E w \in Workers : Decide(w)
    \/ \E w \in Workers : SaveOk(w)
    \/ \E w \in Workers : CreateFail(w)
    \/ \E w \in Workers : EncodeFail(w)
    \/ Collect

Spec == Init /\ [][Next]_vars

\* The process has ended; its exit status (101 is a panic's).
Terminated == mainpc \in {"finished", "setup_panicked", "panicked"}
ExitStatus == IF mainpc = "finished" THEN 0 ELSE 101

\* The run got past the setup and has ended, cleanly or by a re-raised panic.
RunEnded == mainpc \in {"finished", "panicked"}

\* The same scheduler started from configurations that have a zero in them.
InitZero == InitWith(ZeroConfigs)

SpecZero == InitZero /\ [][Next]_vars

(***************************************************************************)
(* Properties of the scheduler.                                            *)
(***************************************************************************)

\* C1: a sink error stays inside the job of the tile it hit: once the run
\* has ended, every tile whose persistence did not fail has been rendered
\* and its job has run to completion, whichever tiles failed and however
\* the folds interleaved.
SinkErrorConfined ==
    RunEnded =>
        \A t \in Tiles(cfg.grid) :
            t \notin failed => (rendered[t] >= 1 /\ t \in completed)

\* C2: the scheduler runs exactly one job per grid index: no tile is ever
\* rendered by two jobs, no two folds hold the same tile (each job works on
\* the buffer it created), and once the run has ended no tile was skipped.
OneJobPerTile ==
    /\ \A t \in Tiles(cfg.grid) : rendered[t] <= 1
    /\ \A v, w \in Workers : (v # w /\ wtile[v] # NoTile) => wtile[v] # wtile[w]
    /\ RunEnded => \A t \in Tiles(cfg.grid) : rendered[t] = 1

\* C3: a clean finish is reported only when every job has completed, every
\* job has reached its end by the time the run ends, and a run in which a
\* job failed with a sink error exits with a non-zero status.
CleanFinishOnlyAfterAllJobs ==
    /\ mainpc = "finished" => completed = Tiles(cfg.grid)
    /\ RunEnded => completed \cup failed = Tiles(cfg.grid)
    /\ (Terminated /\ failed # {}) => ExitStatus # 0

\* C4: a buffer is handed to save_image iff its largest byte exceeds its
\* smallest by more than 20, the buffer being the tile's whole rendering:
\* every decision taken agrees with the range of the complete buffer, a
\* fold is in save_image only after such a decision, and every file
\* created belongs to a tile that was handed over.
PersistedIffRangeExceeds20 ==
    /\ \A d \in decisions :
          /\ d.data = render_table[<<cfg, d.tile>>].img.data
          /\ d.handed <=> \E i, j \in DOMAIN d.data : d.data[i] - d.data[j] > 20
    /\ \A w \in Workers :
          wpc[w] = "save" => \E d \in decisions : d.tile = wtile[w] /\ d.handed
    /\ \A f \in created : \E d \in decisions : d.tile = f.tile /\ d.handed

\* C4's case: in one run a buffer whose range is 21 was handed over and a
\* buffer with a smaller range was not.
PersistedAndSkipped ==
    \E d, e \in decisions :
        /\ d.handed
        /\ \E i, j \in DOMAIN d.data : d.data[i] - d.data[j] = 21
        /\ \A i, j \in DOMAIN d.data : d.data[i] - d.data[j] <= 21
        /\ ~e.handed

\* C7: a configuration with a zero in it (grid size, width, height or
\* escape limit, and with them the interval of a mapping) makes the run
\* fail before any tile job starts: no tile is rendered, nothing is
\* persisted and the run does not finish cleanly.
InvalidConfig(c) == c.grid = 0 \/ c.res.width = 0 \/ c.res.height = 0 \/ c.limit = 0

ConfigErrorFailsFast ==
    InvalidConfig(cfg) =>
        /\ \A t \in Tiles(cfg.grid) : rendered[t] = 0
        /\ created = {}
        /\ mainpc # "finished"

(***************************************************************************)
(* The program's functions called on their own.  No scheduler runs: probe  *)
(* holds the arguments of a call and, once the call is made, its result.   *)
(***************************************************************************)
NoMain ==
    /\ cfg = <<>>
    /\ mainpc = "none"
    /\ iter = 0
    /\ wpc = <<>>
    /\ wtile = <<>>
    /\ wimage = <<>>
    /\ rendered = <<>>
    /\ decisions = {}
    /\ created = {}
    /\ completed = {}
    /\ failed = {}

\* calculate_escape_time, called for the same point with two budgets.  The
\* points are those of a mesh of step 1/PointScale over the global rectangle.
PointScale == 2
MaxEscapeLimit == 8

EscapePoints ==
    {Complex(F32Div(FromInt(x), FromInt(PointScale)), F32Div(FromInt(y), FromInt(PointScale))) :
        x \in (-2 * PointScale)..PointScale, y \in ((-3 * PointScale) \div 2)..((3 * PointScale) \div 2)}

InitEscape ==
    /\ NoMain
    /\ probe \in {[fn |-> "calculate_escape_time", c |-> c, limit |-> l, more |-> m,
                   called |-> FALSE, result |-> None, again |-> None] :
                      c \in EscapePoints, l \in 1..MaxEscapeLimit, m \in 1..MaxEscapeLimit}

CallEscape ==
    /\ probe.fn = "calculate_escape_time"
    /\ ~probe.called
    /\ probe' = [probe EXCEPT !.called = TRUE,
                              !.result = calculate_escape_time(probe.c, probe.limit),
                              !.again = calculate_escape_time(probe.c, probe.more)]
    /\ UNCHANGED main_vars

SpecEscape == InitEscape /\ [][CallEscape]_vars

\* C10: the escape time does not depend on the budget left unused: a call
\* with limit L that returns Some(n) has n < L, and a call for the same
\* point with any limit of at least n + 1 returns Some(n) too; the origin
\* never escapes, whatever the limit.
EscapeIndependentOfBudget ==
    (probe.fn = "calculate_escape_time" /\ probe.called) =>
        /\ probe.result.some =>
              /\ probe.result.val < probe.limit
              /\ probe.more >= probe.result.val + 1 => probe.again = probe.result
        /\ (IsZero(probe.c.re) /\ IsZero(probe.c.im)) => probe.result = None

\* C10's case: an escape found at the last index the limit allows, and the
\* same point run again with a larger limit.
EscapeAtLastIndex ==
    /\ probe.fn = "calculate_escape_time"
    /\ probe.called
    /\ probe.result.some
    /\ probe.result.val >= 2
    /\ probe.result.val + 1 = probe.limit
    /\ probe.more > probe.limit

\* write_data, called on a fresh image of three pixels with two escape
\* counts low < high below the limit and one point that did not escape.
MaxWriteLimit == 16

InitWrite ==
    /\ NoMain
    /\ probe \in {[fn |-> "write_data", limit |-> t[1], low |-> t[2], high |-> t[3],
                   called |-> FALSE, data |-> <<>>] :
                      t \in {u \in (1..MaxWriteLimit) \X (0..MaxWriteLimit) \X (0..MaxWriteLimit) :
                                 u[2] < u[3] /\ u[3] < u[1]}}

CallWrite ==
    /\ probe.fn = "write_data"
    /\ ~probe.called
    /\ probe' = [probe EXCEPT
                    !.called = TRUE,
                    !.data = write_data(ImageNew(Resolution(3, 1)),
                                        <<[position |-> <<0, 0>>, value |-> Some(probe.low)],
                                          [position |-> <<1, 0>>, value |-> Some(probe.high)],
                                          [position |-> <<2, 0>>, value |-> None]>>,
                                        probe.limit, FALSE).img.data]
    /\ UNCHANGED main_vars

SpecWrite == InitWrite /\ [][CallWrite]_vars

\* C8 as stated: points escaping quickly are dark: for escape counts
\* n1 < n2 < L the intensity written for Some(n1) is at most the one
\* written for Some(n2), and None is written as 0.
QuickEscapeIsDark ==
    (probe.fn = "write_data" /\ probe.called) =>
        /\ probe.data[0] <= probe.data[1]
        /\ probe.data[2] = 0

\* C8 as the code has it: the scaled count is taken from 255, so for escape
\* counts n1 < n2 < L the intensity written for Some(n1) is at least the
\* one written for Some(n2), an immediate escape Some(0) is written as 255,
\* and None is written as 0.
QuickEscapeIsBright ==
    (probe.fn = "write_data" /\ probe.called) =>
        /\ probe.data[0] >= probe.data[1]
        /\ probe.low = 0 => probe.data[0] = 255
        /\ probe.data[2] = 0

\* C8's case: two counts below the limit written with different
\* intensities, beside a point that did not escape.
TwoCountsWritten ==
    /\ probe.fn = "write_data"
    /\ probe.called
    /\ probe.low > 0
    /\ probe.high < probe.limit
    /\ probe.data[0] > probe.data[1]
    /\ probe.data[1] > probe.data[2]

\* The partition of a global rectangle into the atlas tiles, for grid sizes
\* up to MaxPartGrid and for main's own, over rectangles with bounds in
\* tenths: the global rectangle of main and three others.
MaxPartGrid == 21

Tenths(n) == F32Div(FromInt(n), FromInt(10))

PartRanges == <<Range(Tenths(-20), Tenths(10)), Range(Tenths(-15), Tenths(15)),
                Range(Tenths(0), Tenths(1)), Range(Tenths(-7), Tenths(3))>>

PartRects == {Rect(PartRanges[1], PartRanges[2]), Rect(PartRanges[3], PartRanges[4]),
              Rect(PartRanges[4], PartRanges[1]), Rect(PartRanges[2], PartRanges[3])}

InitPartition ==
    /\ NoMain
    /\ probe \in {[fn |-> "partition", grid |-> g, rect |-> r, called |-> FALSE, tiles |-> <<>>] :
                      g \in 1..MaxPartGrid, r \in PartRects}
                 \cup {[fn |-> "partition", grid |-> RectLinNum, rect |-> Domain,
                        called |-> FALSE, tiles |-> <<>>]}

CallPartition ==
    /\ probe.fn = "partition"
    /\ ~probe.called
    /\ probe' = [probe EXCEPT !.called = TRUE,
                              !.tiles = partition(probe.rect, probe.grid)]
    /\ UNCHANGED main_vars

SpecPartition == InitPartition /\ [][CallPartition]_vars

\* The parts of C6 that do not concern the upper bounds: along an axis the
\* least lower bound of the tiles is the rectangle's, and each tile's upper
\* bound is its neighbour's lower bound.
SharedEdges(tiles, grid, rect) ==
    /\ \E t \in DOMAIN tiles : F32Eq(tiles[t].x.min, rect.x.min)
    /\ \E t \in DOMAIN tiles : F32Eq(tiles[t].y.min, rect.y.min)
    /\ \A t \in DOMAIN tiles :
          /\ F32Le(rect.x.min, tiles[t].x.min)
          /\ F32Le(rect.y.min, tiles[t].y.min)
          /\ t[1] < grid - 1 => F32Eq(tiles[t].x.max, tiles[<<t[1] + 1, t[2]>>].x.min)
          /\ t[2] < grid - 1 => F32Eq(tiles[t].y.max, tiles[<<t[1], t[2] + 1>>].y.min)

\* The greatest upper bounds of the tiles along the two axes.
TopX(tiles) == CHOOSE v \in {tiles[t].x.max : t \in DOMAIN tiles} :
                   \A t \in DOMAIN tiles : F32Le(tiles[t].x.max, v)
TopY(tiles) == CHOOSE v \in {tiles[t].y.max : t \in DOMAIN tiles} :
                   \A t \in DOMAIN tiles : F32Le(tiles[t].y.max, v)

\* v is the range's upper bound up to the rounding of the affine map: they
\* differ by at most 2^-21 times the larger magnitude of the range's bounds.
Magnitude(a) == IF a.s = 1 THEN F32Neg(a) ELSE a
Larger(a, b) == IF F32Lt(a, b) THEN b ELSE a
WithinRounding(v, range) ==
    F32Le(Magnitude(F32Sub(v, range.max)),
          F32Mul(F32Div(FromInt(1), FromInt(2097152)),
                 Larger(Magnitude(range.min), Magnitude(range.max))))

\* C6 as stated: the tiles cover the global rectangle exactly: least lower
\* bounds and greatest upper bounds are the rectangle's own, on both axes,
\* and neighbours share their edge.
TilesCoverExactly ==
    (probe.fn = "partition" /\ probe.called) =>
        /\ SharedEdges(probe.tiles, probe.grid, probe.rect)
        /\ F32Eq(TopX(probe.tiles), probe.rect.x.max)
        /\ F32Eq(TopY(probe.tiles), probe.rect.y.max)

\* C6 as the code has it: least lower bounds are the rectangle's own and
\* neighbours share their edge exactly; the greatest upper bounds are the
\* rectangle's up to rounding, and exactly so for main's grid and rectangle.
TilesCoverUpToRounding ==
    (probe.fn = "partition" /\ probe.called) =>
        /\ SharedEdges(probe.tiles, probe.grid, probe.rect)
        /\ WithinRounding(TopX(probe.tiles), probe.rect.x)
        /\ WithinRounding(TopY(probe.tiles), probe.rect.y)
        /\ (probe.grid = RectLinNum /\ probe.rect = Domain) =>
              /\ F32Eq(TopX(probe.tiles), probe.rect.x.max)
              /\ F32Eq(TopY(probe.tiles), probe.rect.y.max)

\* C6's case: a partition of main's rectangle into more than one tile per
\* axis whose last tile ends beside the rectangle's upper bound.
LastTileOffBound ==
    /\ probe.fn = "partition"
    /\ probe.called
    /\ probe.grid > 1
    /\ probe.rect = Domain
    /\ ~F32Eq(TopX(probe.tiles), probe.rect.x.max)

\* The Tile Computer and the accumulation.  Two calls: the index write_data
\* computes for two different coordinates of one resolution, in a build
\* with or without overflow checks; and a whole tile of main's rectangle
\* accumulated in the order make_calculations yields it and in the
\* opposite order.  The resolutions are those of sides up to MaxSide, and
\* for the index one of 65536 x 65537 pixels, probed at its edges.
MaxSide == 3
MaxAccLimit == 4

Edge(n) == {k \in {0, 1, n - 2, n - 1} : 0 <= k /\ k < n}
Coordinates(res) == {<<x, y>> : x \in Edge(res.width), y \in Edge(res.height)}
SmallResolutions == {Resolution(w, h) : w \in 1..MaxSide, h \in 1..MaxSide}
WideResolution == Resolution(256 * 256, 256 * 256 + 1)

Reverse(seq) == [k \in 1..Len(seq) |-> seq[Len(seq) + 1 - k]]

IndexProbes(res) ==
    {[fn |-> "pixel_index", res |-> res, p |-> p, q |-> q, checks |-> c, called |-> FALSE,
      ip |-> <<>>, iq |-> <<>>] :
        p \in Coordinates(res), q \in Coordinates(res), c \in BOOLEAN}

InitPixels ==
    /\ NoMain
    /\ probe \in {pr \in UNION {IndexProbes(res) : res \in SmallResolutions \cup {WideResolution}} :
                     pr.p # pr.q}
                 \cup {[fn |-> "accumulate", res |-> res, limit |-> l, called |-> FALSE,
                        pairs |-> <<>>, forward |-> <<>>, backward |-> <<>>] :
                           res \in SmallResolutions, l \in 1..MaxAccLimit}

CallIndex ==
    /\ probe.fn = "pixel_index"
    /\ ~probe.called
    /\ probe' = [probe EXCEPT !.called = TRUE,
                              !.ip = pixel_index(probe.p, probe.res.width),
                              !.iq = pixel_index(probe.q, probe.res.width)]
    /\ UNCHANGED main_vars

Accumulated(pairs) ==
    /\ probe' = [probe EXCEPT
                    !.called = TRUE,
                    !.pairs = pairs,
                    !.forward = write_data(ImageNew(probe.res), pairs, probe.limit, FALSE),
                    !.backward = write_data(ImageNew(probe.res), Reverse(pairs), probe.limit,
                                            FALSE)]
    /\ UNCHANGED main_vars

CallAccumulate ==
    /\ probe.fn = "accumulate"
    /\ ~probe.called
    /\ Accumulated(make_calculations(probe.res, Domain, probe.limit))

NextPixels == CallIndex \/ CallAccumulate

SpecPixels == InitPixels /\ [][NextPixels]_vars

\* C9: for any resolution with positive sides every coordinate is yielded
\* exactly once and two different coordinates get different indices inside
\* the buffer, computed without a panic, so that the buffer does not depend
\* on the order of accumulation.
DistinctIndexPerPixel ==
    /\ (probe.fn = "pixel_index" /\ probe.called) =>
          /\ ~(probe.checks /\ (probe.ip.overflow \/ probe.iq.overflow))
          /\ InBounds(probe.ip.val, probe.res)
          /\ InBounds(probe.iq.val, probe.res)
          /\ probe.ip.val # probe.iq.val
    /\ (probe.fn = "accumulate" /\ probe.called) =>
          /\ Len(probe.pairs) = probe.res.width * probe.res.height
          /\ \A x \in 0..(probe.res.width - 1), y \in 0..(probe.res.height - 1) :
                \E k \in 1..Len(probe.pairs) : probe.pairs[k].position = <<x, y>>
          /\ ~probe.forward.panicked
          /\ probe.forward = probe.backward

\* The file names of two tiles of main's own atlas, 128 x 128 tiles over
\* the global rectangle.  A name is made of the two x bounds, which depend
\* on x_i alone, and the two y bounds, which depend on y_i alone: two tiles
\* with one name agree on both parts, and then so do the tiles of row 0 (or
\* of column 0) below them.  The pairs of row 0 and of column 0 therefore
\* decide the matter for all pairs.
MainConfig == [grid |-> RectLinNum]

AxisPairs == {ij \in (0..(RectLinNum - 1)) \X (0..(RectLinNum - 1)) : ij[1] < ij[2]}

InitNames ==
    /\ NoMain
    /\ probe \in {[fn |-> "file_name", a |-> <<ij[1], 0>>, b |-> <<ij[2], 0>>,
                   called |-> FALSE, na |-> <<>>, nb |-> <<>>] : ij \in AxisPairs}
                 \cup {[fn |-> "file_name", a |-> <<0, ij[1]>>, b |-> <<0, ij[2]>>,
                        called |-> FALSE, na |-> <<>>, nb |-> <<>>] : ij \in AxisPairs}

CallNames ==
    /\ probe.fn = "file_name"
    /\ ~probe.called
    /\ probe' = [probe EXCEPT !.called = TRUE,
                              !.na = file_name(MainConfig, probe.a),
                              !.nb = file_name(MainConfig, probe.b)]
    /\ UNCHANGED main_vars

SpecNames == InitNames /\ [][CallNames]_vars

\* C5: in main's configuration two different atlas tiles get different
\* file names.
DistinctFileNames ==
    (probe.fn = "file_name" /\ probe.called) => probe.na # probe.nb

\* C5's case: two neighbouring tiles, whose names share the bound between
\* them.
NeighboursNamed ==
    /\ probe.fn = "file_name"
    /\ probe.called
    /\ probe.b[1] = probe.a[1] + 1
    /\ probe.na[2] = probe.nb[1]
    /\ probe.na[1] # probe.nb[1]
====
